---- MODULE Spec2Model ----
(***************************************************************************)
(* MultiClientActor (src/multiclient/multi_client_actor.cpp): the health   *)
(* and archival monitoring of a fixed registry of liteserver workers,      *)
(* driven by one periodic alarm, and the worker selection select_workers.  *)
(*                                                                         *)
(* Time is counted in whole seconds.  The code only ever builds a          *)
(* td::Timestamp with Timestamp::in(x) and only ever asks it is_in_past(), *)
(* so a timestamp is kept as the time left until it is reached: in(x) is   *)
(* x, is_in_past() is "nothing left", and a second passing takes one off   *)
(* every timestamp that is not yet reached.  A std::optional<T> is the set *)
(* of its values: {} is std::nullopt, {v} holds v.                         *)
(***************************************************************************)
EXTENDS Integers, Sequences, FiniteSets

\* ---------------------------------------------------------------- bounds
NumWorkers == 2          \* liteservers in the global config (workers_.size())
MaxArchivalRequests == 1 \* lookupBlock requests of one worker left unanswered
MaxSeqno == 1            \* masterchain seqnos a probe can return: 1..MaxSeqno
MaxConsecutiveAliveCheckErrors == 1   \* config_.max_consecutive_alive_check_errors
NumSnapshotWorkers == 3  \* workers_.size() of the registries select_workers is tried on
MaxIndexes == 2          \* longest lite_server_indexes vector of a request

\* ------------------------------------------------------ program constants
kDefaultAlarmInterval == 1
kCheckArchivalInterval == 10
kRetryInterval == 10
kStartUpAlarmDelay == 1
kStartUpArchivalDelay == 2
kNoSeqno == -1

Workers == 0 .. (NumWorkers - 1)
Seqnos == 1 .. MaxSeqno

VARIABLES
  workers,               \* workers_: index -> WorkerInfo
  alarm_timestamp,       \* alarm_timestamp()
  next_archival_check,   \* next_archival_check_
  alive_requests,        \* index -> getMasterchainInfo requests not yet answered
  archival_requests,     \* index -> lookupBlock requests not yet answered
  options,               \* the RequestParameters of the last select_workers call
  outcome                \* what that call did: not called, returned, aborted

vars == <<workers, alarm_timestamp, next_archival_check, alive_requests,
          archival_requests, options, outcome>>

\* ----------------------------------------------------------- time helpers
TimestampIn(x) == x
IsInPast(at) == at = 0
\* The timestamp one second later.
Later(at) == IF at = 0 THEN 0 ELSE at - 1

Range(seq) == { seq[k] : k \in 1 .. Len(seq) }
Min(a, b) == IF a < b THEN a ELSE b

HasValue(o) == o # {}
Value(o) == CHOOSE v \in o : TRUE

\* ------------------------------------------------------------ WorkerInfo
DefaultWorkerInfo ==
  [ is_alive |-> FALSE,
    is_archival |-> FALSE,
    is_waiting_for_update |-> FALSE,
    last_mc_seqno |-> kNoSeqno,
    check_retry_count |-> 0,
    check_retry_after |-> {} ]

\* ------------------------------------------------------------ check_alive
\* One iteration of the loop of check_alive over worker record w:
\* the record it leaves and whether it sent the getMasterchainInfo request.
check_alive_NoWaitingGuard(w) ==
  LET send(r) == [ worker |-> [r EXCEPT !.is_waiting_for_update = TRUE], sent |-> TRUE ]
      skip == [ worker |-> w, sent |-> FALSE ]
  IN  IF ~w.is_alive
      THEN IF w.check_retry_count > MaxConsecutiveAliveCheckErrors
           THEN skip
           ELSE IF HasValue(w.check_retry_after) /\ IsInPast(Value(w.check_retry_after))
                THEN send([w EXCEPT !.check_retry_count = @ + 1,
                                    !.check_retry_after = {}])
                ELSE IF w.check_retry_count # 0
                     THEN skip
                     ELSE send(w)
      ELSE send(w)

check_alive_NoCeiling(w) ==
  LET send(r) == [ worker |-> [r EXCEPT !.is_waiting_for_update = TRUE], sent |-> TRUE ]
      skip == [ worker |-> w, sent |-> FALSE ]
  IN  IF w.is_waiting_for_update
      THEN skip
      ELSE IF ~w.is_alive
           THEN IF HasValue(w.check_retry_after) /\ IsInPast(Value(w.check_retry_after))
                THEN send([w EXCEPT !.check_retry_count =
                                       Min(@ + 1, MaxConsecutiveAliveCheckErrors + 1),
                                    !.check_retry_after = {}])
                ELSE IF w.check_retry_count # 0
                     THEN skip
                     ELSE send(w)
           ELSE send(w)

check_alive_RetryNotSent(w) ==
  LET send(r) == [ worker |-> [r EXCEPT !.is_waiting_for_update = TRUE], sent |-> TRUE ]
      skip == [ worker |-> w, sent |-> FALSE ]
  IN  IF w.is_waiting_for_update
      THEN skip
      ELSE IF ~w.is_alive
           THEN IF w.check_retry_count > MaxConsecutiveAliveCheckErrors
                THEN skip
                ELSE IF HasValue(w.check_retry_after) /\ IsInPast(Value(w.check_retry_after))
                     THEN [ worker |-> [w EXCEPT !.check_retry_count = @ + 1,
                                                 !.check_retry_after = {}],
                            sent |-> FALSE ]
                     ELSE IF w.check_retry_count # 0
                          THEN skip
                          ELSE send(w)
           ELSE send(w)

check_alive_CeilingOffByOne(w) ==
  LET send(r) == [ worker |-> [r EXCEPT !.is_waiting_for_update = TRUE], sent |-> TRUE ]
      skip == [ worker |-> w, sent |-> FALSE ]
  IN  IF w.is_waiting_for_update
      THEN skip
      ELSE IF ~w.is_alive
           THEN IF w.check_retry_count > MaxConsecutiveAliveCheckErrors + 1
                THEN skip
                ELSE IF HasValue(w.check_retry_after) /\ IsInPast(Value(w.check_retry_after))
                     THEN send([w EXCEPT !.check_retry_count = @ + 1,
                                         !.check_retry_after = {}])
                     ELSE IF w.check_retry_count # 0
                          THEN skip
                          ELSE send(w)
           ELSE send(w)

check_alive_worker(w) ==
  LET send(r) == [ worker |-> [r EXCEPT !.is_waiting_for_update = TRUE], sent |-> TRUE ]
      skip == [ worker |-> w, sent |-> FALSE ]
  IN  IF w.is_waiting_for_update
      THEN skip
      ELSE IF ~w.is_alive
           THEN IF w.check_retry_count > MaxConsecutiveAliveCheckErrors
                THEN skip
                ELSE IF HasValue(w.check_retry_after) /\ IsInPast(Value(w.check_retry_after))
                     THEN send([w EXCEPT !.check_retry_count = @ + 1,
                                         !.check_retry_after = {}])
                     ELSE IF w.check_retry_count # 0
                          THEN skip
                          ELSE send(w)
           ELSE send(w)

\* check_alive(): the whole pass, workers in index order (iterations are
\* independent: each reads and writes its own record only).
check_alive_BlockOnAny(ws) ==
  [ i \in DOMAIN ws |->
      IF \E j \in DOMAIN ws : ws[j].is_waiting_for_update
      THEN [ worker |-> ws[i], sent |-> FALSE ]
      ELSE check_alive_worker(ws[i]) ]

check_alive(ws) == [ i \in DOMAIN ws |-> check_alive_worker(ws[i]) ]

\* ------------------------------------------------------- on_alive_checked
on_alive_checked_NoReset(w, last_mc_seqno) ==
  LET is_alive == HasValue(last_mc_seqno)
      w1 == [w EXCEPT !.is_alive = is_alive, !.is_waiting_for_update = FALSE]
  IN  IF is_alive
      THEN [w1 EXCEPT !.last_mc_seqno = Value(last_mc_seqno)]
      ELSE [w1 EXCEPT !.check_retry_after = {TimestampIn(kRetryInterval)}]

on_alive_checked_CountFailure(w, last_mc_seqno) ==
  LET is_alive == HasValue(last_mc_seqno)
      w1 == [w EXCEPT !.is_alive = is_alive, !.is_waiting_for_update = FALSE]
  IN  IF is_alive
      THEN [w1 EXCEPT !.last_mc_seqno = Value(last_mc_seqno),
                      !.check_retry_count = 0]
      ELSE [w1 EXCEPT !.check_retry_after = {TimestampIn(kRetryInterval)},
                      !.check_retry_count =
                         Min(@ + 1, MaxConsecutiveAliveCheckErrors + 1)]

on_alive_checked_ClearSeqno(w, last_mc_seqno) ==
  LET is_alive == HasValue(last_mc_seqno)
      w1 == [w EXCEPT !.is_alive = is_alive, !.is_waiting_for_update = FALSE]
  IN  IF is_alive
      THEN [w1 EXCEPT !.last_mc_seqno = Value(last_mc_seqno),
                      !.check_retry_count = 0]
      ELSE [w1 EXCEPT !.check_retry_after = {TimestampIn(kRetryInterval)},
                      !.last_mc_seqno = kNoSeqno]

on_alive_checked_ClearArchival(w, last_mc_seqno) ==
  LET is_alive == HasValue(last_mc_seqno)
      w1 == [w EXCEPT !.is_alive = is_alive, !.is_waiting_for_update = FALSE]
  IN  IF is_alive
      THEN [w1 EXCEPT !.last_mc_seqno = Value(last_mc_seqno),
                      !.check_retry_count = 0]
      ELSE [w1 EXCEPT !.check_retry_after = {TimestampIn(kRetryInterval)},
                      !.is_archival = FALSE]

on_alive_checked(w, last_mc_seqno) ==
  LET is_alive == HasValue(last_mc_seqno)
      w1 == [w EXCEPT !.is_alive = is_alive, !.is_waiting_for_update = FALSE]
  IN  IF is_alive
      THEN [w1 EXCEPT !.last_mc_seqno = Value(last_mc_seqno),
                      !.check_retry_count = 0]
      ELSE [w1 EXCEPT !.check_retry_after = {TimestampIn(kRetryInterval)}]

\* --------------------------------------------------------- check_archival
\* Whether the pass sends lookupBlock to worker record w.
check_archival_NoAliveTest(w) == TRUE

check_archival_worker(w) == w.is_alive

\* ---------------------------------------------------- on_archival_checked
on_archival_checked(w, is_archival) == [w EXCEPT !.is_archival = is_archival]

\* --------------------------------------------------------- select_workers
\* std::views::iota(0u, workers_.size())
Iota(ws) == [ k \in 1 .. Cardinality(DOMAIN ws) |-> k - 1 ]

\* The two filters of the range-for: the alive workers, and of them the
\* archival ones when options.archival == true; ascending by construction.
Candidates_IgnoreArchival(ws, opt) ==
  SelectSeq(Iota(ws), LAMBDA i : ws[i].is_alive)

Candidates_NoAliveFilter(ws, opt) ==
  SelectSeq(Iota(ws),
            LAMBDA i : IF opt.archival = {TRUE} THEN ws[i].is_archival ELSE TRUE)

Candidates(ws, opt) ==
  SelectSeq(SelectSeq(Iota(ws), LAMBDA i : ws[i].is_alive),
            LAMBDA i : IF opt.archival = {TRUE} THEN ws[i].is_archival ELSE TRUE)

\* The elements of a std::set<size_t>, in its iteration order.
RECURSIVE SetToSeq(_)
SetToSeq(S) ==
  IF S = {} THEN <<>>
  ELSE LET m == CHOOSE x \in S : \A y \in S : x <= y
       IN  <<m>> \o SetToSeq(S \ {m})

\* The loop over options.lite_server_indexes in Multiple mode: an index the
\* set does not contain is erased from it.
RECURSIVE EraseLoop(_, _)
EraseLoop(result_set, indexes) ==
  IF indexes = <<>> THEN result_set
  ELSE LET index == Head(indexes)
       IN  EraseLoop(IF index \notin result_set THEN result_set \ {index}
                                                ELSE result_set,
                     Tail(indexes))

Shuffles_WithRepeats(seq) ==
  LET n == Len(seq)
  IN  { [ k \in 1 .. n |-> seq[f[k]] ] : f \in [1 .. n -> 1 .. n] }

\* std::shuffle: any order of the elements.
Shuffles(seq) ==
  LET n == Len(seq)
      perms == { f \in [1 .. n -> 1 .. n] : \A a, b \in 1 .. n : f[a] = f[b] => a = b }
  IN  { [ k \in 1 .. n |-> seq[f[k]] ] : f \in perms }

Returned(result) == [ status |-> "returned", result |-> result ]
Aborted == [ status |-> "aborted", result |-> <<>> ]

\* Single with lite_server_indexes: the CHECK, then std::find.
select_single_index_Substitute(result, indexes) ==
  IF ~(indexes # <<>> /\ Len(indexes) = 1)
  THEN {Aborted}
  ELSE {Returned(IF Head(indexes) \in Range(result) THEN <<Head(indexes)>>
                                                    ELSE <<result[1]>>)}

select_single_index(result, indexes) ==
  IF ~(indexes # <<>> /\ Len(indexes) = 1)
  THEN {Aborted}
  ELSE {Returned(IF Head(indexes) \in Range(result) THEN <<Head(indexes)>>
                                                    ELSE <<>>)}

\* Multiple with clients_number: std::shuffle, then resize.
select_shuffled_NoShuffle(result, clients_number) ==
  {Returned(SubSeq(result, 1, Min(clients_number, Len(result))))}

select_shuffled(result, clients_number) ==
  { Returned(SubSeq(p, 1, Min(clients_number, Len(result)))) : p \in Shuffles(result) }

\* select_workers(options) on the registry ws: every outcome it can have.
select_workers(ws, opt) ==
  LET result == Candidates(ws, opt)
  IN  IF result = <<>>
      THEN {Returned(result)}
      ELSE CASE opt.mode = "Broadcast" -> {Returned(result)}
             [] opt.mode = "Single" ->
                  IF HasValue(opt.lite_server_indexes)
                  THEN select_single_index(result, Value(opt.lite_server_indexes))
                  ELSE { Returned(<<result[k + 1]>>) : k \in 0 .. (Len(result) - 1) }
             [] opt.mode = "Multiple" ->
                  IF HasValue(opt.clients_number) /\ HasValue(opt.lite_server_indexes)
                  THEN {Aborted}
                  ELSE IF ~(HasValue(opt.clients_number) \/ HasValue(opt.lite_server_indexes))
                  THEN {Aborted}
                  ELSE IF HasValue(opt.lite_server_indexes)
                  THEN {Returned(SetToSeq(EraseLoop(Range(result),
                                                    Value(opt.lite_server_indexes))))}
                  ELSE select_shuffled(result, Value(opt.clients_number))

\* The RequestParameters a caller can pass.
IndexVectors(n) ==
  UNION { [1 .. len -> 0 .. n] : len \in 0 .. MaxIndexes }

RequestParameters(n) ==
  [ mode : {"Broadcast", "Single", "Multiple"},
    archival : {{}, {TRUE}, {FALSE}},
    lite_server_indexes : {{}} \cup { {v} : v \in IndexVectors(n) },
    clients_number : {{}} \cup { {c} : c \in 0 .. (n + 1) } ]

\* ------------------------------------------------------------------ Init
NotCalled == [ status |-> "not_called", result |-> <<>> ]
NoOptions == [ mode |-> "None", archival |-> {},
               lite_server_indexes |-> {}, clients_number |-> {} ]

Init ==
  /\ workers = [ i \in Workers |-> DefaultWorkerInfo ]
  /\ alarm_timestamp = kStartUpAlarmDelay
  /\ next_archival_check = kStartUpArchivalDelay
  /\ alive_requests = [ i \in Workers |-> 0 ]
  /\ archival_requests = [ i \in Workers |-> 0 ]
  /\ options = NoOptions
  /\ outcome = NotCalled

\* --------------------------------------------------------------- actions
\* A second passes; the alarm may fire late, never early.
Tick ==
  /\ workers' = [ i \in DOMAIN workers |->
                   [workers[i] EXCEPT !.check_retry_after = {Later(at) : at \in @}] ]
  /\ alarm_timestamp' = Later(alarm_timestamp)
  /\ next_archival_check' = Later(next_archival_check)
  /\ UNCHANGED <<alive_requests, archival_requests, options, outcome>>

Alarm_NoArchivalRearm ==
  /\ IsInPast(alarm_timestamp)
  /\ IsInPast(next_archival_check) =>
       \A i \in DOMAIN workers : check_archival_worker(workers[i]) =>
                             archival_requests[i] < MaxArchivalRequests
  /\ LET pass == check_alive(workers)
         ws == [ i \in DOMAIN workers |-> pass[i].worker ]
         archival_due == IsInPast(next_archival_check)
     IN  /\ workers' = ws
         /\ alive_requests' =
              [ i \in DOMAIN workers |-> alive_requests[i] + (IF pass[i].sent THEN 1 ELSE 0) ]
         /\ archival_requests' =
              [ i \in DOMAIN workers |->
                  archival_requests[i]
                    + (IF archival_due /\ check_archival_worker(ws[i]) THEN 1 ELSE 0) ]
         /\ next_archival_check' =
              next_archival_check
  /\ alarm_timestamp' = TimestampIn(kDefaultAlarmInterval)
  /\ UNCHANGED <<options, outcome>>

\* MultiClientActor::alarm()
Alarm ==
  /\ IsInPast(alarm_timestamp)
  /\ IsInPast(next_archival_check) =>
       \A i \in DOMAIN workers : check_archival_worker(workers[i]) =>
                             archival_requests[i] < MaxArchivalRequests
  /\ LET pass == check_alive(workers)
         ws == [ i \in DOMAIN workers |-> pass[i].worker ]
         archival_due == IsInPast(next_archival_check)
     IN  /\ workers' = ws
         /\ alive_requests' =
              [ i \in DOMAIN workers |-> alive_requests[i] + (IF pass[i].sent THEN 1 ELSE 0) ]
         /\ archival_requests' =
              [ i \in DOMAIN workers |->
                  archival_requests[i]
                    + (IF archival_due /\ check_archival_worker(ws[i]) THEN 1 ELSE 0) ]
         /\ next_archival_check' =
              IF archival_due THEN TimestampIn(kCheckArchivalInterval)
                              ELSE next_archival_check
  /\ alarm_timestamp' = TimestampIn(kDefaultAlarmInterval)
  /\ UNCHANGED <<options, outcome>>

\* The answer of a getMasterchainInfo request of worker i reaches the actor.
OnAliveChecked(i, last_mc_seqno) ==
  /\ alive_requests[i] > 0
  /\ alive_requests' = [alive_requests EXCEPT ![i] = @ - 1]
  /\ workers' = [workers EXCEPT ![i] = on_alive_checked(@, last_mc_seqno)]
  /\ UNCHANGED <<alarm_timestamp, next_archival_check, archival_requests,
                 options, outcome>>

\* The answer of a lookupBlock request of worker i reaches the actor.
OnArchivalChecked(i, is_archival) ==
  /\ archival_requests[i] > 0
  /\ archival_requests' = [archival_requests EXCEPT ![i] = @ - 1]
  /\ workers' = [workers EXCEPT ![i] = on_archival_checked(@, is_archival)]
  /\ UNCHANGED <<alarm_timestamp, next_archival_check, alive_requests,
                 options, outcome>>

Next ==
  \/ Tick
  \/ Alarm
  \/ \E i \in DOMAIN workers, s \in {{}} \cup {{n} : n \in Seqnos} : OnAliveChecked(i, s)
  \/ \E i \in DOMAIN workers, b \in BOOLEAN : OnArchivalChecked(i, b)

Spec == Init /\ [][Next]_vars

\* ----------------------------------------------------- fair executions
\* A registry of one liteserver, as start_up leaves it.
InitSingle ==
  /\ workers = [ i \in {0} |-> DefaultWorkerInfo ]
  /\ alarm_timestamp = TimestampIn(kStartUpAlarmDelay)
  /\ next_archival_check = TimestampIn(kStartUpArchivalDelay)
  /\ alive_requests = [ i \in {0} |-> 0 ]
  /\ archival_requests = [ i \in {0} |-> 0 ]
  /\ options = NoOptions
  /\ outcome = NotCalled

\* Time passes, a due alarm fires (alarm() always re-arms itself, line 117),
\* and every request that was sent is answered.
Fairness ==
  /\ WF_vars(Tick)
  /\ WF_vars(Alarm)
  /\ \A i \in {0} :
        /\ WF_vars(\E s \in {{}} \cup {{n} : n \in Seqnos} : OnAliveChecked(i, s))
        /\ WF_vars(\E b \in BOOLEAN : OnArchivalChecked(i, b))

SpecFair == InitSingle /\ [][Next]_vars /\ Fairness

\* ------------------------------------------- select_workers on a snapshot
\* The records a worker can be left in between two events: never probed,
\* answered its last probe, or failed it after having answered one (the
\* archival flag survives the failure and the retry time is running).
SnapshotRecords ==
  { DefaultWorkerInfo }
  \cup { [DefaultWorkerInfo EXCEPT !.is_alive = TRUE, !.last_mc_seqno = 1,
                                   !.is_archival = a] : a \in BOOLEAN }
  \cup { [DefaultWorkerInfo EXCEPT !.last_mc_seqno = 1, !.is_archival = TRUE,
                                   !.check_retry_after = {TimestampIn(kRetryInterval)}] }

SelectInit ==
  /\ workers \in [ 0 .. (NumSnapshotWorkers - 1) -> SnapshotRecords ]
  /\ alarm_timestamp = TimestampIn(kDefaultAlarmInterval)
  /\ next_archival_check = TimestampIn(kCheckArchivalInterval)
  /\ alive_requests = [ i \in DOMAIN workers |-> 0 ]
  /\ archival_requests = [ i \in DOMAIN workers |-> 0 ]
  /\ options = NoOptions
  /\ outcome = NotCalled

\* A request dispatch calls select_workers(opt) once on the snapshot.
SelectWorkers(opt) ==
  /\ outcome = NotCalled
  /\ options' = opt
  /\ outcome' \in select_workers(workers, opt)
  /\ UNCHANGED <<workers, alarm_timestamp, next_archival_check, alive_requests,
                 archival_requests>>

SelectNext ==
  /\ outcome = NotCalled
  /\ \E opt \in RequestParameters(Cardinality(DOMAIN workers)) : SelectWorkers(opt)

SpecSelect == SelectInit /\ [][SelectNext]_vars

\* ================================================================ claims
\* What the claims speak of, said without the operators above.
Index == DOMAIN workers
Dead(i) == ~workers[i].is_alive
OverCeiling(i) == workers[i].check_retry_count > MaxConsecutiveAliveCheckErrors
RetryPending(i) ==
  /\ workers[i].check_retry_after # {}
  /\ \A at \in workers[i].check_retry_after : at > 0
\* Dead, above the ceiling, and no probe on its way.
Excluded(i) == Dead(i) /\ OverCeiling(i) /\ alive_requests[i] = 0
\* This step sends an alive-probe to worker i / delivers one of its answers.
ProbeSent(i) == alive_requests'[i] = alive_requests[i] + 1
ProbeAnswered(i) == alive_requests'[i] = alive_requests[i] - 1

Eligible(i) ==
  /\ workers[i].is_alive
  /\ TRUE \in options.archival => workers[i].is_archival
CandidateSet == { i \in Index : Eligible(i) }
Ascending(seq) == \A a, b \in 1 .. Len(seq) : a < b => seq[a] < seq[b]
Distinct(seq) == \A a, b \in 1 .. Len(seq) : a # b => seq[a] # seq[b]
Called == outcome.status # "not_called"
HasIndexes == options.lite_server_indexes # {}
HasNumber == options.clients_number # {}
Indexes == CHOOSE v \in options.lite_server_indexes : TRUE
Number == CHOOSE c \in options.clients_number : TRUE

\* C1: a worker whose last answer was a failure delivered at time t is sent
\* no alive-probe before t + 10s.  The failure sets check_retry_after to
\* t + 10s and nothing changes it before it is reached, so "before t + 10s"
\* is: the worker is dead and its check_retry_after is set and not reached.
C1_NoProbeBeforeBackoffElapsed ==
  [][\A i \in Index : (Dead(i) /\ RetryPending(i)) => ~ProbeSent(i)]_vars

\* C2: Multiple with lite_server_indexes (and no clients_number) returns the
\* ascending intersection of the requested indexes with the candidate set.
C2_MultipleIndexesIsIntersection ==
  (Called /\ options.mode = "Multiple" /\ HasIndexes /\ ~HasNumber) =>
     /\ outcome.status = "returned"
     /\ Ascending(outcome.result)
     /\ Range(outcome.result) = CandidateSet \cap Range(Indexes)

\* C3 as claimed: once check_retry_count is above the ceiling no later tick
\* sends the worker an alive-probe, also not after the probe sent with the
\* increment is answered, whatever the answer: that answer leaves the worker
\* in a state in which a tick passes it over.
C3_NoProbeOnceExceeded ==
  [][\A i \in Index :
        (OverCeiling(i) /\ ProbeAnswered(i)) => ~check_alive_worker(workers'[i]).sent]_vars

\* C3 amended: a dead worker above the ceiling is sent no alive-probe, and
\* once it is dead, above the ceiling and has no probe on its way (the probe
\* sent with the increment has failed), it stays so: it is never probed again.
C3_NoProbeWhileExcluded ==
  [][\A i \in Index :
        /\ (Dead(i) /\ OverCeiling(i)) => ~ProbeSent(i)
        /\ Excluded(i) => (Excluded(i))']_vars

\* C3 witness: an excluded worker whose retry time has been reached, so that
\* only the ceiling keeps the next tick from probing it.
C3_Witness ==
  \E i \in Index : Excluded(i) /\ workers[i].check_retry_after = {0}
                     /\ alarm_timestamp = 0

\* C4 as claimed: a worker whose check_retry_count is above the ceiling is
\* never marked alive again, so no step marks it alive.
C4_NeverAliveOnceExceeded ==
  [][\A i \in Index : OverCeiling(i) => ~workers'[i].is_alive]_vars

\* The well-formed requests that could name worker i: every mode, with and
\* without the archival filter, asking for i by index or for as many workers
\* as there are.
RequestsFor(i) ==
  LET request(mode, indexes, number) ==
        { [ mode |-> mode, archival |-> a, lite_server_indexes |-> indexes,
            clients_number |-> number ] : a \in {{}, {TRUE}} }
  IN  UNION { request("Broadcast", {}, {}),
              request("Single", {}, {}),
              request("Single", {<<i>>}, {}),
              request("Multiple", {<<i>>}, {}),
              request("Multiple", {}, {Cardinality(Index)}) }

\* C4 amended: once a worker is dead, above the ceiling and has no probe on
\* its way, it stays so (it is never marked alive again), and select_workers
\* returns it in no mode.
C4_ExcludedNeverSelected ==
  /\ [](\A i \in Index : Excluded(i) =>
          \A opt \in RequestsFor(i) :
             \A o \in select_workers(workers, opt) : i \notin Range(o.result))
  /\ [][\A i \in Index : Excluded(i) => (Excluded(i))']_vars

\* C4 witness: a worker is excluded while another one is alive, so that
\* select_workers has something to return.
C4_Witness ==
  \E i, j \in Index : Excluded(i) /\ workers[j].is_alive /\ workers[i].is_archival

\* C5: no worker ever has more than one alive-probe unanswered (a tick that
\* sent a second one would make it two), and is_waiting_for_update says
\* exactly whether one is.
C5_SingleFlight ==
  \A i \in Index :
     /\ alive_requests[i] <= 1
     /\ workers[i].is_waiting_for_update <=> alive_requests[i] = 1

\* C5 witness: worker i still waits for the answer to its very first probe
\* while another worker has been through a failure and a counted retry, which
\* takes later ticks: ticks that passed worker i over.
C5_Witness ==
  \E i, j \in Index :
     /\ alive_requests[i] = 1 /\ workers[i].last_mc_seqno = kNoSeqno
     /\ workers[i].check_retry_count = 0 /\ workers[i].check_retry_after = {}
     /\ workers[j].check_retry_count > 0 /\ alive_requests[j] = 1

\* C6: a malformed request (Multiple with both or neither of
\* lite_server_indexes and clients_number, Single with lite_server_indexes of
\* a size other than one) never returns, in any registry state.
Malformed ==
  \/ options.mode = "Multiple" /\ (HasIndexes <=> HasNumber)
  \/ options.mode = "Single" /\ HasIndexes /\ Len(Indexes) # 1

C6_MalformedNeverReturns ==
  (Called /\ Malformed) => outcome.status = "aborted"

\* C7: the delivery of a successful alive-probe leaves the worker alive, not
\* waiting, with check_retry_count 0 and check_retry_after unset.
C7_SuccessResetsWorker ==
  [][\A i \in Index :
        (ProbeAnswered(i) /\ workers'[i].is_alive) =>
           /\ ~workers'[i].is_waiting_for_update
           /\ workers'[i].check_retry_count = 0
           /\ workers'[i].check_retry_after = {}]_vars

\* C8: Single with lite_server_indexes = <<k>> returns <<k>> when k is a
\* candidate and the empty sequence when it is not, never another index.
C8_SingleIndex ==
  (Called /\ options.mode = "Single" /\ HasIndexes /\ Len(Indexes) = 1) =>
     outcome = [ status |-> "returned",
                 result |-> IF Indexes[1] \in CandidateSet THEN <<Indexes[1]>>
                                                           ELSE <<>> ]

\* C8 witness: the requested worker is not a candidate while another is,
\* and the call returned nothing.
C8_Witness ==
  /\ Called /\ options.mode = "Single" /\ HasIndexes /\ Len(Indexes) = 1
  /\ Indexes[1] \in Index /\ Indexes[1] \notin CandidateSet
  /\ CandidateSet # {}
  /\ outcome.result = <<>>

\* C9: Broadcast returns the ascending sequence of exactly the alive (and,
\* when asked for, archival) workers, whatever the other two fields hold.
C9_Broadcast ==
  (Called /\ options.mode = "Broadcast") =>
     /\ outcome.status = "returned"
     /\ Ascending(outcome.result)
     /\ Range(outcome.result) = CandidateSet

\* C9 witness: archival asked for, both other fields set, an alive worker
\* left out for not being archival and two workers returned.
C9_Witness ==
  /\ Called /\ options.mode = "Broadcast" /\ TRUE \in options.archival
  /\ HasIndexes /\ HasNumber
  /\ \E i \in Index : workers[i].is_alive /\ ~workers[i].is_archival
  /\ Len(outcome.result) = 2

\* C10: Multiple with clients_number = n (and no lite_server_indexes) returns
\* min(n, |candidates|) pairwise distinct candidates, and every subset of the
\* candidates of that size is the result of some draw.
C10_MultipleNumber ==
  (Called /\ options.mode = "Multiple" /\ HasNumber /\ ~HasIndexes) =>
     LET size == Min(Number, Cardinality(CandidateSet))
     IN  /\ outcome.status = "returned"
         /\ Len(outcome.result) = size
         /\ Distinct(outcome.result)
         /\ Range(outcome.result) \subseteq CandidateSet
         /\ \A S \in SUBSET CandidateSet :
               Cardinality(S) = size =>
                  \E o \in select_workers(workers, options) : Range(o.result) = S

\* C10 witness: two of three candidates were asked for and the draw did not
\* keep the first two in index order.
C10_Witness ==
  /\ Called /\ options.mode = "Multiple" /\ HasNumber /\ ~HasIndexes
  /\ Number = 2 /\ Cardinality(CandidateSet) = 3
  /\ outcome.result = <<2, 0>>

\* This step sends a lookupBlock request to worker i / delivers one of its
\* answers; this step is a firing of the alarm (only alarm() re-arms it).
ArchivalSent(i) == archival_requests'[i] = archival_requests[i] + 1
ArchivalAnswered(i) == archival_requests'[i] = archival_requests[i] - 1
AlarmStep == alarm_timestamp = 0 /\ alarm_timestamp' = kDefaultAlarmInterval

\* C11: every archival probe goes to a worker that is alive when the archival
\* pass runs (before and after the health pass of the same alarm).
C11_ArchivalProbeOnlyToAlive ==
  [][\A i \in Index :
        ArchivalSent(i) => (workers[i].is_alive /\ workers'[i].is_alive)]_vars

\* C11 witness: an archival pass has just run; it probed the alive worker and
\* passed over the dead one.
C11_Witness ==
  /\ next_archival_check = kCheckArchivalInterval
  /\ alarm_timestamp = kDefaultAlarmInterval
  /\ \E i, j \in Index :
        /\ workers[i].is_alive /\ archival_requests[i] = 1
        /\ Dead(j) /\ archival_requests[j] = 0 /\ workers[j].check_retry_after # {}

\* This step delivers a successful / a failed answer of worker i's alive-probe.
ProbeSucceeded(i) == ProbeAnswered(i) /\ workers'[i].is_alive
ProbeFailed(i) == ProbeAnswered(i) /\ ~workers'[i].is_alive
\* This step is an alarm whose health pass finds worker i dead with its
\* check_retry_after set and reached, and so sends it a counted retry.
RetryIssued(i) ==
  /\ AlarmStep
  /\ Dead(i) /\ ~workers[i].is_waiting_for_update
  /\ workers[i].check_retry_after = {0}
  /\ ProbeSent(i)

\* C12: a nonzero check_retry_count is found only on a dead worker, and the
\* count goes from nonzero to 0 only in the step that delivers a successful
\* alive-probe answer.
\* (Every count is 0 after start_up, so the first conjunct, on the state a step
\* leads to, covers every reachable state.)
C12_CountOnlyWhileDead ==
  [][\A i \in Index :
        /\ workers'[i].check_retry_count # 0 => ~workers'[i].is_alive
        /\ (workers[i].check_retry_count # 0 /\ workers'[i].check_retry_count = 0)
              => ProbeSucceeded(i)]_vars

\* C12 witness: a dead worker with a nonzero count whose retry is in flight,
\* the state from which a successful answer resets the count.
C12_Witness ==
  \E i \in Index :
     /\ workers[i].check_retry_count = 1
     /\ Dead(i) /\ workers[i].is_waiting_for_update
     /\ alive_requests[i] = 1 /\ workers[i].last_mc_seqno = kNoSeqno

\* C13 as claimed: check_retry_count is the number of failed answers delivered
\* since the last successful one (or since start_up).  Step by step: a failed
\* answer adds one, a successful answer resets to 0, nothing else changes it.
C13_CountIsFailedAnswers ==
  [][\A i \in Index :
        workers'[i].check_retry_count =
           IF ProbeSucceeded(i) THEN 0
           ELSE IF ProbeFailed(i) THEN workers[i].check_retry_count + 1
           ELSE workers[i].check_retry_count]_vars

\* C13 amended: check_retry_count is the number of counted retries, the probes
\* a health pass sent on finding check_retry_after set and reached, since the
\* last successful answer (or since start_up).  Step by step: such a retry adds
\* one, a successful answer resets to 0, and nothing else, a failed answer
\* included, changes it.
C13_CountIsRetries ==
  [][\A i \in Index :
        workers'[i].check_retry_count =
           IF ProbeSucceeded(i) THEN 0
           ELSE IF RetryIssued(i) THEN workers[i].check_retry_count + 1
           ELSE workers[i].check_retry_count]_vars

\* C13 witness: a failed answer has been delivered after the last success and
\* the count is still 0: the backoff runs, no retry has been sent yet.
C13_Witness ==
  \E i \in Index :
     /\ Dead(i) /\ ~workers[i].is_waiting_for_update
     /\ workers[i].last_mc_seqno # kNoSeqno
     /\ workers[i].check_retry_after = {TimestampIn(kRetryInterval)}
     /\ workers[i].check_retry_count = 0

\* Dead, no alive-probe in flight, and the count not above the ceiling.
AwaitingRetry(i) == Dead(i) /\ alive_requests[i] = 0 /\ ~OverCeiling(i)

\* C14: in a fair execution a dead worker with no probe in flight and a count
\* not above the ceiling is eventually probed again, and no reachable state
\* has such a worker with a nonzero count and check_retry_after unset.
C14_RetryEventually ==
  /\ [](\A i \in Index :
          (AwaitingRetry(i) /\ workers[i].check_retry_count > 0)
             => workers[i].check_retry_after # {})
  /\ \A i \in {0} : AwaitingRetry(i) ~> (alive_requests[i] = 1)

\* C14 witness: a counted retry has failed; the worker waits for the next one
\* with its count at the ceiling and the backoff just armed.
C14_Witness ==
  \E i \in Index :
     /\ AwaitingRetry(i)
     /\ workers[i].check_retry_count = MaxConsecutiveAliveCheckErrors
     /\ workers[i].check_retry_count > 0
     /\ workers[i].check_retry_after = {TimestampIn(kRetryInterval)}

\* What the health pass of an alarm does with worker i, read off its own
\* record: an alive worker is probed, a dead one when its count is not above
\* the ceiling and either its check_retry_after is set and reached or its count
\* is 0; never one that waits for an answer.
ProbeDue(i) ==
  /\ ~workers[i].is_waiting_for_update
  /\ \/ workers[i].is_alive
     \/ /\ ~OverCeiling(i)
        /\ \/ workers[i].check_retry_after = {0}
           \/ workers[i].check_retry_count = 0

\* C15: every firing of the alarm makes one health pass and re-arms itself one
\* alarm interval ahead; it makes an archival pass only when
\* next_archival_check is reached and then sets it one archival interval
\* ahead.  No other step sends a probe or moves the deadline except the clock,
\* which brings it one second nearer, so two archival passes are at least the
\* archival interval apart while each alarm between them makes a health pass.
C15_SchedulerCadence ==
  [][/\ AlarmStep =>
          /\ \A i \in Index : IF ProbeDue(i) THEN ProbeSent(i)
                                             ELSE alive_requests'[i] = alive_requests[i]
          /\ IF IsInPast(next_archival_check)
             THEN /\ next_archival_check' = kCheckArchivalInterval
                  /\ \A i \in Index : IF workers[i].is_alive
                                      THEN ArchivalSent(i)
                                      ELSE archival_requests'[i] = archival_requests[i]
             ELSE /\ next_archival_check' = next_archival_check
                  /\ archival_requests' = archival_requests
     /\ ~AlarmStep =>
          /\ \A i \in Index : ~ProbeSent(i) /\ ~ArchivalSent(i)
          /\ next_archival_check' \in {next_archival_check, next_archival_check - 1}
          /\ alarm_timestamp' \in {alarm_timestamp, alarm_timestamp - 1}]_vars

\* C15 witness: between two archival passes, an alarm has just made a health
\* pass (the alive worker's probe is out) and the answer of the last archival
\* pass is still awaited.
C15_Witness ==
  /\ alarm_timestamp = kDefaultAlarmInterval
  /\ next_archival_check = kCheckArchivalInterval - 3
  /\ \E i \in Index :
        /\ workers[i].is_alive /\ workers[i].is_waiting_for_update
        /\ alive_requests[i] = 1 /\ archival_requests[i] = 1

\* C16: while the answer of worker i's alive-probe is not delivered the worker
\* stays is_waiting_for_update, keeps its is_alive and is sent no other probe,
\* and every alarm treats each other worker by that worker's own record.
C16_LostCompletionConfined ==
  [][\A i \in Index :
        (alive_requests[i] = 1 /\ ~ProbeAnswered(i)) =>
           /\ workers'[i].is_waiting_for_update
           /\ workers'[i].is_alive = workers[i].is_alive
           /\ ~ProbeSent(i)
           /\ \A j \in Index \ {i} : (AlarmStep /\ ProbeDue(j)) => ProbeSent(j)]_vars

\* C16 witness: worker i's first probe has not been answered for longer than
\* an archival interval, and meanwhile worker j was probed, answered, found
\* archival and is being probed again.
C16_Witness ==
  \E i, j \in Index :
     /\ alive_requests[i] = 1 /\ workers[i].is_waiting_for_update
     /\ workers[i].last_mc_seqno = kNoSeqno /\ workers[i].check_retry_after = {}
     /\ workers[j].is_alive /\ workers[j].is_archival /\ alive_requests[j] = 1
     /\ next_archival_check = kCheckArchivalInterval - 1

\* C17: the delivery of a failed alive-probe answer leaves the worker dead,
\* not waiting, with check_retry_after ten seconds ahead and with its count,
\* last_mc_seqno and is_archival as they were.  The count grows only by one
\* and only in an alarm whose health pass finds check_retry_after set and
\* reached; last_mc_seqno changes only on a successful answer.
C17_FailureEffects ==
  [][\A i \in Index :
        /\ ProbeFailed(i) =>
             /\ ~workers'[i].is_waiting_for_update
             /\ workers'[i].check_retry_after = {kRetryInterval}
             /\ workers'[i].check_retry_count = workers[i].check_retry_count
             /\ workers'[i].last_mc_seqno = workers[i].last_mc_seqno
             /\ workers'[i].is_archival = workers[i].is_archival
        /\ workers'[i].check_retry_count > workers[i].check_retry_count =>
             /\ workers'[i].check_retry_count = workers[i].check_retry_count + 1
             /\ AlarmStep
             /\ workers[i].check_retry_after = {0}
        /\ workers'[i].last_mc_seqno # workers[i].last_mc_seqno =>
             ProbeSucceeded(i)]_vars

\* C17 witness: a failed answer has just been delivered to a worker that had
\* a seqno, the archival flag and a nonzero count; all three are still there.
C17_Witness ==
  \E i \in Index :
     /\ Dead(i) /\ ~workers[i].is_waiting_for_update /\ alive_requests[i] = 0
     /\ workers[i].check_retry_after = {kRetryInterval}
     /\ workers[i].check_retry_count = 1
     /\ workers[i].last_mc_seqno = MaxSeqno
     /\ workers[i].is_archival

\* C18: for a well-formed request select_workers returns, in every mode, only
\* alive (and, when asked for, archival) workers, none of them twice, nothing
\* when there is no candidate, and in Single mode without lite_server_indexes
\* exactly one worker when there is a candidate.
C18_SelectorSound ==
  (Called /\ ~Malformed) =>
     /\ outcome.status = "returned"
     /\ Range(outcome.result) \subseteq CandidateSet
     /\ Distinct(outcome.result)
     /\ CandidateSet = {} => outcome.result = <<>>
     /\ (options.mode = "Single" /\ ~HasIndexes /\ CandidateSet # {})
           => Len(outcome.result) = 1

\* C18 witness: Single without lite_server_indexes with the archival filter,
\* on a registry with an alive worker that is not archival and two
\* candidates: the one returned is not the first candidate.
C18_Witness ==
  /\ Called /\ options.mode = "Single" /\ ~HasIndexes
  /\ TRUE \in options.archival
  /\ Cardinality(CandidateSet) = 2
  /\ \E i \in Index : workers[i].is_alive /\ ~workers[i].is_archival
  /\ Len(outcome.result) = 1
  /\ \E i \in CandidateSet : i < outcome.result[1]

\* C19: check_retry_count is at least 0 and at most one above the ceiling, so
\* a count above the ceiling (which is then the ceiling plus one) is never
\* incremented.
C19_CountBounded ==
  \A i \in Index :
     /\ workers[i].check_retry_count >= 0
     /\ workers[i].check_retry_count <= MaxConsecutiveAliveCheckErrors + 1

\* C19 witness: the retry that took the count one above the ceiling has
\* failed and its backoff has run out; the alarm is due and leaves the count.
C19_Witness ==
  \E i \in Index :
     /\ workers[i].check_retry_count = MaxConsecutiveAliveCheckErrors + 1
     /\ Dead(i) /\ alive_requests[i] = 0
     /\ workers[i].check_retry_after = {0}
     /\ IsInPast(alarm_timestamp)
     /\ \E j \in Index : workers[j].is_alive /\ alive_requests[j] = 0

\* C20: the delivery of an answer for worker i changes no other worker's
\* record; is_archival changes only when a lookupBlock answer is delivered,
\* which changes nothing else of the record, so an alive-probe answer, a
\* failed one included, leaves is_archival as it was.
C20_CompletionIsolation ==
  [][\A i \in Index :
        /\ (ProbeAnswered(i) \/ ArchivalAnswered(i)) =>
              \A j \in Index \ {i} : workers'[j] = workers[j]
        /\ ArchivalAnswered(i) =>
              \E b \in BOOLEAN : workers'[i] = [workers[i] EXCEPT !.is_archival = b]
        /\ workers'[i].is_archival # workers[i].is_archival => ArchivalAnswered(i)
        /\ ProbeAnswered(i) => workers'[i].is_archival = workers[i].is_archival]_vars

\* C20 witness: a worker found archival has since failed an alive-probe and
\* still carries the flag, next to an alive worker that is not archival.
C20_Witness ==
  \E i, j \in Index :
     /\ Dead(i) /\ workers[i].is_archival /\ workers[i].check_retry_count = 0
     /\ workers[i].check_retry_after = {kRetryInterval}
     /\ workers[j].is_alive /\ ~workers[j].is_archival /\ archival_requests[j] = 0

====
